---- MODULE Spec2Model ----
(***************************************************************************)
(* Model of the heap-allocated median filter (heap.rs): a ring buffer of   *)
(* list nodes with an embedded, value-sorted, circular doubly-linked list  *)
(* and three cursors (cursor, head, median).                               *)
(*                                                                         *)
(* A filter is a record [buffer, cursor, head, median].  buffer is a       *)
(* function from the slot indices 0..len-1 to nodes.  While a method runs, *)
(* the record carries more fields: panic (the kind of panic that stopped   *)
(* the method, or NoPanic), at (the function that panicked), hops (the     *)
(* iterations of the insertion walk), inserts and insert_at (the calls of  *)
(* insert and the insertion point).                                        *)
(* Every slice index of the source is bounds-checked here as Rust does it: *)
(* an index outside 0..len-1 panics.                                       *)
(***************************************************************************)
EXTENDS Integers, Sequences, FiniteSets, TLC

\* ---------------------------------------------------------------- bounds
\* Spec: window sizes 0..MaxW, samples 0..MaxVal, at most MaxConsume calls
\* of consume.
MaxW == 4
MaxVal == 2
MaxConsume == 5
\* SpecTwin: window sizes 0..MaxTwinW, samples 0..MaxTwinVal, at most
\* MaxPrefix separate calls of consume per filter, then at most MaxCommon
\* calls with the same value on both.
MaxTwinW == 3
MaxTwinVal == 1
MaxPrefix == 1
MaxCommon == 4

Values == 0..MaxVal
TwinValues == 0..MaxTwinVal

\* ------------------------------------------------------- program values
\* Option::None of ListNode::value; a held sample is Some(v) with v >= 0.
None == -1
\* usize::max_value(): the placeholder link, larger than every slot index.
UsizeMax == 2147483647

NoPanic == "none"
IndexOutOfBounds == "index out of bounds"
UnwrapNone == "unwrap on None"
AssertFailed == "assertion failed"
DebugAssertFailed == "debug assertion failed"
RemByZero == "remainder with a divisor of zero"

is_some(x) == x # None

ListNode(v, p, n) == [value |-> v, previous |-> p, next |-> n]

\* Filter::new
new(size) ==
    [buffer |-> [i \in 0..(size - 1) |->
                    ListNode(None, (i + size - 1) % size, (i + 1) % size)],
     cursor |-> 0,
     head |-> 0,
     median |-> 0]

\* Filter::len
len(f) == Cardinality(DOMAIN f.buffer)

\* Filter::is_empty: declared to return usize, and returns self.len().
is_empty(f) == [type |-> "usize", value |-> len(f)]

InBounds(f, i) == i \in DOMAIN f.buffer

\* A method starts running on filter f / stops with a panic / has finished.
Enter(f) ==
    [buffer |-> f.buffer, cursor |-> f.cursor, head |-> f.head,
     median |-> f.median, panic |-> NoPanic, at |-> "", hops |-> 0,
     inserts |-> 0, insert_at |-> None]
Panic(f, kind, where) == [f EXCEPT !.panic = kind, !.at = where]
\* A panic has stopped the method: none of its later steps runs.
Panicking(f) == f.panic # NoPanic
Leave(f) ==
    [buffer |-> f.buffer, cursor |-> f.cursor, head |-> f.head,
     median |-> f.median]

\* ------------------------------------------------------ steps of consume
\* Mutant: the head is left on the node that is about to be evicted.
move_head_forward_never(f) == f

move_head_forward(f) ==
    IF f.cursor = f.head
    THEN IF InBounds(f, f.head)
         THEN [f EXCEPT !.head = f.buffer[f.head].next]
         ELSE Panic(f, IndexOutOfBounds, "move_head_forward")
    ELSE f

remove_node(f) ==
    IF Panicking(f) THEN f
    ELSE
      IF ~InBounds(f, f.cursor)
      THEN Panic(f, IndexOutOfBounds, "remove_node")
      ELSE
        LET predecessor == f.buffer[f.cursor].previous
            successor == f.buffer[f.cursor].next
        IN IF ~InBounds(f, predecessor)
           THEN Panic(f, IndexOutOfBounds, "remove_node")
           ELSE
             LET b1 == [f.buffer EXCEPT ![predecessor].next = successor]
                 b2 == [b1 EXCEPT ![f.cursor] = ListNode(None, UsizeMax, UsizeMax)]
             IN IF ~InBounds(f, successor)
                THEN Panic([f EXCEPT !.buffer = b2], IndexOutOfBounds, "remove_node")
                ELSE [f EXCEPT !.buffer =
                          [b2 EXCEPT ![successor].previous = predecessor]]

initialize_median(f) ==
    IF Panicking(f) THEN f
    ELSE [f EXCEPT !.median = f.head]

\* Mutant: the walk has no last-slot fallback, so a value larger than every
\* sample of the list is never linked in.
should_insert_no_fallback(f, value, current, index) ==
    IF is_some(f.buffer[current].value)
    THEN f.buffer[current].value >= value
    ELSE TRUE

\* Mutant: the walk passes the samples equal to the new value.
should_insert_strict(f, value, current, index) ==
    IF is_some(f.buffer[current].value)
    THEN (index + 1 = len(f)) \/ (f.buffer[current].value > value)
    ELSE TRUE

\* should_insert is called with current in bounds (insert_value checks it).
should_insert(f, value, current, index) ==
    IF is_some(f.buffer[current].value)
    THEN (index + 1 = len(f)) \/ (f.buffer[current].value >= value)
    ELSE TRUE

\* A call of insert is recorded in the run: how many calls so far, and the
\* insertion point (current) of the last one.
Called(f, current) ==
    [f EXCEPT !.inserts = f.inserts + 1, !.insert_at = current]

\* The debug assertion of insert: buffer.len() == 1 || current != cursor.
insert_debug_assert(f, current) == len(f) = 1 \/ current # f.cursor

\* Mutant: the successor's back link is not set to the inserted node.
insert_without_back_link(f, value, current) ==
    LET successor == current
        predecessor == f.buffer[current].previous
        g == Called(f, current)
    IN IF ~insert_debug_assert(f, current)
       THEN Panic(g, DebugAssertFailed, "insert")
       ELSE IF ~InBounds(f, predecessor)
       THEN Panic(g, IndexOutOfBounds, "insert")
       ELSE
         LET b1 == [f.buffer EXCEPT ![predecessor].next = f.cursor]
         IN IF ~InBounds(f, f.cursor)
            THEN Panic([g EXCEPT !.buffer = b1], IndexOutOfBounds, "insert")
            ELSE [g EXCEPT !.buffer =
                     [b1 EXCEPT ![f.cursor] =
                         ListNode(value, predecessor, successor)]]

insert(f, value, current) ==
    LET successor == current
        predecessor == f.buffer[current].previous
        g == Called(f, current)
    IN IF ~insert_debug_assert(f, current)
       THEN Panic(g, DebugAssertFailed, "insert")
       ELSE IF ~InBounds(f, predecessor)
       THEN Panic(g, IndexOutOfBounds, "insert")
       ELSE
         LET b1 == [f.buffer EXCEPT ![predecessor].next = f.cursor]
         IN IF ~InBounds(f, f.cursor)
            THEN Panic([g EXCEPT !.buffer = b1], IndexOutOfBounds, "insert")
            ELSE
              LET b2 == [b1 EXCEPT ![f.cursor] =
                            ListNode(value, predecessor, successor)]
              IN [g EXCEPT !.buffer =
                     [b2 EXCEPT ![successor].previous = f.cursor]]

\* Mutant: the median is shifted on the even hops instead of the odd ones.
shift_median_even_hops(f, index, current) ==
    IF index % 2 = 0
    THEN IF ~InBounds(f, current)
         THEN Panic(f, IndexOutOfBounds, "shift_median")
         ELSE IF is_some(f.buffer[current].value)
              THEN IF InBounds(f, f.median)
                   THEN [f EXCEPT !.median = f.buffer[f.median].next]
                   ELSE Panic(f, IndexOutOfBounds, "shift_median")
              ELSE f
    ELSE f

shift_median(f, index, current) ==
    IF index % 2 = 1
    THEN IF ~InBounds(f, current)
         THEN Panic(f, IndexOutOfBounds, "shift_median")
         ELSE IF is_some(f.buffer[current].value)
              THEN IF InBounds(f, f.median)
                   THEN [f EXCEPT !.median = f.buffer[f.median].next]
                   ELSE Panic(f, IndexOutOfBounds, "shift_median")
              ELSE f
    ELSE f

\* Mutant: the walk stops as soon as the value has been inserted.
RECURSIVE insert_value_loop_break(_, _, _, _, _)
insert_value_loop_break(f, value, current, has_inserted, index) ==
    IF index >= len(f) \/ has_inserted
    THEN f
    ELSE
      LET probe == ~has_inserted
          f1 == IF ~probe THEN f
                ELSE IF ~InBounds(f, current)
                     THEN Panic(f, IndexOutOfBounds, "should_insert")
                     ELSE IF should_insert(f, value, current, index)
                          THEN insert(f, value, current)
                          ELSE f
          inserted == has_inserted
                      \/ (InBounds(f, current)
                          /\ should_insert(f, value, current, index))
          f2 == IF f1.panic # NoPanic THEN f1
                ELSE shift_median(f1, index, current)
          f3 == IF f2.panic # NoPanic THEN f2
                ELSE IF ~InBounds(f2, current)
                     THEN Panic(f2, IndexOutOfBounds, "insert_value")
                     ELSE [f2 EXCEPT !.hops = f2.hops + 1]
      IN IF f3.panic # NoPanic
         THEN f3
         ELSE insert_value_loop_break(f3, value, f3.buffer[current].next,
                                inserted, index + 1)

\* The body of the for loop of insert_value, from iteration index on.
RECURSIVE insert_value_loop(_, _, _, _, _)
insert_value_loop(f, value, current, has_inserted, index) ==
    IF index >= len(f)
    THEN f
    ELSE
      LET probe == ~has_inserted
          f1 == IF ~probe THEN f
                ELSE IF ~InBounds(f, current)
                     THEN Panic(f, IndexOutOfBounds, "should_insert")
                     ELSE IF should_insert(f, value, current, index)
                          THEN insert(f, value, current)
                          ELSE f
          inserted == has_inserted
                      \/ (InBounds(f, current)
                          /\ should_insert(f, value, current, index))
          f2 == IF f1.panic # NoPanic THEN f1
                ELSE shift_median(f1, index, current)
          f3 == IF f2.panic # NoPanic THEN f2
                ELSE IF ~InBounds(f2, current)
                     THEN Panic(f2, IndexOutOfBounds, "insert_value")
                     ELSE [f2 EXCEPT !.hops = f2.hops + 1]
      IN IF f3.panic # NoPanic
         THEN f3
         ELSE insert_value_loop(f3, value, f3.buffer[current].next,
                                inserted, index + 1)

insert_value(f, value) ==
    IF Panicking(f) THEN f
    ELSE insert_value_loop(f, value, f.head, FALSE, 0)

\* Mutant: the head moves to the new node only for a strictly smaller value.
update_head_strict(f, value) ==
    IF Panicking(f) THEN f
    ELSE
      IF ~InBounds(f, f.head)
      THEN Panic(f, IndexOutOfBounds, "update_head")
      ELSE
        LET should_update_head ==
                IF is_some(f.buffer[f.head].value)
                THEN value < f.buffer[f.head].value
                ELSE TRUE
        IN IF should_update_head
           THEN LET f1 == [f EXCEPT !.head = f.cursor]
                IN IF InBounds(f1, f1.median)
                   THEN [f1 EXCEPT !.median = f1.buffer[f1.median].previous]
                   ELSE Panic(f1, IndexOutOfBounds, "update_head")
           ELSE f

\* Mutant: an empty head slot does not make the new node the head.
update_head_ignores_empty(f, value) ==
    IF Panicking(f) THEN f
    ELSE
      IF ~InBounds(f, f.head)
      THEN Panic(f, IndexOutOfBounds, "update_head")
      ELSE
        LET should_update_head ==
                IF is_some(f.buffer[f.head].value)
                THEN value <= f.buffer[f.head].value
                ELSE FALSE
        IN IF should_update_head
           THEN LET f1 == [f EXCEPT !.head = f.cursor]
                IN IF InBounds(f1, f1.median)
                   THEN [f1 EXCEPT !.median = f1.buffer[f1.median].previous]
                   ELSE Panic(f1, IndexOutOfBounds, "update_head")
           ELSE f

update_head(f, value) ==
    IF Panicking(f) THEN f
    ELSE
      IF ~InBounds(f, f.head)
      THEN Panic(f, IndexOutOfBounds, "update_head")
      ELSE
        LET should_update_head ==
                IF is_some(f.buffer[f.head].value)
                THEN value <= f.buffer[f.head].value
                ELSE TRUE
        IN IF should_update_head
           THEN LET f1 == [f EXCEPT !.head = f.cursor]
                IN IF InBounds(f1, f1.median)
                   THEN [f1 EXCEPT !.median = f1.buffer[f1.median].previous]
                   ELSE Panic(f1, IndexOutOfBounds, "update_head")
           ELSE f

\* Mutant: the step back for an even window size is left out.
adjust_median_never(f) == f

adjust_median_for_even_length(f) ==
    IF Panicking(f) THEN f
    ELSE
      IF len(f) % 2 = 0
      THEN IF InBounds(f, f.median)
           THEN [f EXCEPT !.median = f.buffer[f.median].previous]
           ELSE Panic(f, IndexOutOfBounds, "adjust_median_for_even_length")
      ELSE f

\* Mutant: the cursor is advanced without wrapping around.
increment_cursor_no_wrap(f) ==
    IF Panicking(f) THEN f
    ELSE [f EXCEPT !.cursor = f.cursor + 1]

increment_cursor(f) ==
    IF Panicking(f) THEN f
    ELSE
      IF len(f) = 0
      THEN Panic(f, RemByZero, "increment_cursor")
      ELSE [f EXCEPT !.cursor = (f.cursor + 1) % len(f)]

\* ------------------------------------------------------------- readers
\* The result of a call: status is NoPanic and value the returned value,
\* or status is the panic and value is None.
Returned(v) == [status |-> NoPanic, value |-> v]
Panicked(kind) == [status |-> kind, value |-> None]

read_slot(f, index) ==
    IF ~InBounds(f, index) THEN Panicked(IndexOutOfBounds)
    ELSE IF is_some(f.buffer[index].value)
         THEN Returned(f.buffer[index].value)
         ELSE Panicked(UnwrapNone)

read_median(f) == read_slot(f, f.median)

read_min(f) == read_slot(f, f.head)

\* Mutant: max reads the slot under the write cursor, not the one behind it.
read_max_at_cursor(f) ==
    IF len(f) = 0 THEN Panicked(RemByZero)
    ELSE read_slot(f, f.cursor % len(f))

read_max(f) ==
    IF len(f) = 0 THEN Panicked(RemByZero)
    ELSE read_slot(f, (f.cursor + len(f) - 1) % len(f))

\* --------------------------------------------------------- public methods
\* Mutant: median without its assertion on the capacity.
median_unchecked(f) == read_median(f)

median(f) == IF len(f) = 0 THEN Panicked(AssertFailed) ELSE read_median(f)

min(f) == IF len(f) = 0 THEN Panicked(AssertFailed) ELSE read_min(f)

max(f) == IF len(f) = 0 THEN Panicked(AssertFailed) ELSE read_max(f)

\* Filter::consume: the filter as the call leaves it (run) and what the
\* call returns (result).  The steps run in the order of the source; a step
\* does nothing once an earlier one has panicked.
consume_run(f0, value) ==
    increment_cursor(
      adjust_median_for_even_length(
        update_head(
          insert_value(
            initialize_median(
              remove_node(
                move_head_forward(Enter(f0)))),
            value),
          value)))

consume_return(f) ==
    [run |-> f,
     result |-> IF Panicking(f) THEN Panicked(f.panic) ELSE read_median(f)]

consume(f0, value) == consume_return(consume_run(f0, value))

\* ------------------------------------------------------------------ state
VARIABLES
    filter,      \* the Filter under test
    inputs,      \* the values passed to consume on filter so far, in order
    ret,         \* the last call on filter: [op, status, value, at, hops]
    twin,        \* a second Filter of the same window size
    twinInputs,  \* the values passed to consume on twin so far, in order
    common       \* how many of the last calls gave both filters the same value

vars == <<filter, inputs, ret, twin, twinInputs, common>>

NoCall == [op |-> "new", status |-> NoPanic, value |-> None, at |-> "", hops |-> 0]

Init ==
    \E size \in 0..MaxW :
        /\ filter = new(size)
        /\ twin = new(size)
        /\ inputs = <<>>
        /\ twinInputs = <<>>
        /\ ret = NoCall
        /\ common = 0

ConsumeCall(c) ==
    [op |-> "consume", status |-> c.result.status, value |-> c.result.value,
     at |-> IF c.run.panic # NoPanic THEN c.run.at
            ELSE IF c.result.status # NoPanic THEN "read_median" ELSE "",
     hops |-> c.run.hops]

AccessorCall(name, r) ==
    [op |-> name, status |-> r.status, value |-> r.value, at |-> "", hops |-> 0]

Consume(value) ==
    /\ Len(inputs) < MaxConsume
    /\ LET c == consume(filter, value)
       IN /\ filter' = Leave(c.run)
          /\ ret' = ConsumeCall(c)
    /\ inputs' = Append(inputs, value)
    /\ UNCHANGED <<twin, twinInputs, common>>

CallMedian ==
    /\ ret' = AccessorCall("median", median(filter))
    /\ UNCHANGED <<filter, inputs, twin, twinInputs, common>>

CallMin ==
    /\ ret' = AccessorCall("min", min(filter))
    /\ UNCHANGED <<filter, inputs, twin, twinInputs, common>>

CallMax ==
    /\ ret' = AccessorCall("max", max(filter))
    /\ UNCHANGED <<filter, inputs, twin, twinInputs, common>>

CallIsEmpty ==
    /\ ret' = AccessorCall("is_empty", Returned(is_empty(filter).value))
    /\ UNCHANGED <<filter, inputs, twin, twinInputs, common>>

Next ==
    \/ \E value \in Values : Consume(value)
    \/ CallMedian
    \/ CallMin
    \/ CallMax
    \/ CallIsEmpty

Spec == Init /\ [][Next]_vars

\* ------------------------------------------------- two filters, side by side
\* Two filters of one window size are first fed separately (their inputs may
\* differ in values and in number), then fed the same values.
InitTwin ==
    \E size \in 0..MaxTwinW :
        /\ filter = new(size)
        /\ twin = new(size)
        /\ inputs = <<>>
        /\ twinInputs = <<>>
        /\ ret = NoCall
        /\ common = 0

ConsumeFirst(value) ==
    /\ common = 0
    /\ Len(inputs) < MaxPrefix
    /\ LET c == consume(filter, value)
       IN /\ filter' = Leave(c.run)
          /\ ret' = ConsumeCall(c)
    /\ inputs' = Append(inputs, value)
    /\ UNCHANGED <<twin, twinInputs, common>>

ConsumeSecond(value) ==
    /\ common = 0
    /\ Len(twinInputs) < MaxPrefix
    /\ twin' = Leave(consume(twin, value).run)
    /\ twinInputs' = Append(twinInputs, value)
    /\ UNCHANGED <<filter, inputs, ret, common>>

ConsumeBoth(value) ==
    /\ common < MaxCommon
    /\ LET c == consume(filter, value)
       IN /\ filter' = Leave(c.run)
          /\ ret' = ConsumeCall(c)
    /\ inputs' = Append(inputs, value)
    /\ twin' = Leave(consume(twin, value).run)
    /\ twinInputs' = Append(twinInputs, value)
    /\ common' = common + 1

NextTwin ==
    \/ \E value \in TwinValues : ConsumeFirst(value)
    \/ \E value \in TwinValues : ConsumeSecond(value)
    \/ \E value \in TwinValues : ConsumeBoth(value)

SpecTwin == InitTwin /\ [][NextTwin]_vars

\* =================================================================== claims
\* Reference notions the claims are stated with (not part of the program).
Accessors == {"median", "min", "max"}

\* The valid samples: the last min(i, W) of the i consumed values.
LastK(ins, k) == SubSeq(ins, Len(ins) - k + 1, Len(ins))
ValidCount(ins, f) == IF Len(ins) < len(f) THEN Len(ins) ELSE len(f)
Window(ins, f) == LastK(ins, ValidCount(ins, f))

\* The element of ascending sorted rank r (1-indexed) of a non-empty sequence.
NotAbove(win, x) == Cardinality({i \in DOMAIN win : win[i] <= x})
Below(win, x) == Cardinality({i \in DOMAIN win : win[i] < x})
RankValue(win, r) ==
    CHOOSE x \in {win[i] : i \in DOMAIN win} : Below(win, x) < r /\ r <= NotAbove(win, x)
HalfUp(k) == (k + 1) \div 2
Smallest(win) == RankValue(win, 1)
Largest(win) == RankValue(win, Len(win))

Consumed == len(filter) >= 1 /\ Len(inputs) >= 1
Win == Window(inputs, filter)

\* C1: for every W >= 1 and every prefix of the input, the i-th consume, and
\* median() until the next consume, return the element of sorted rank
\* ceil(k/2) (the lower middle when k is even) of the last k = min(i, W)
\* consumed values.
C1_MedianRank ==
    Consumed =>
        /\ median(filter) = Returned(RankValue(Win, HalfUp(Len(Win))))
        /\ ret.op \in {"consume", "median"} =>
               /\ ret.status = NoPanic
               /\ ret.value = RankValue(Win, HalfUp(Len(Win)))

\* C1 witness: a full even window whose two middle values differ, after the
\* window has slid, as returned by consume.
C1_Witness ==
    /\ len(filter) = 4
    /\ Len(inputs) > 4
    /\ ret.op = "consume"
    /\ ret.value = RankValue(Win, 2)
    /\ RankValue(Win, 2) < RankValue(Win, 3)

\* C2: after i >= 1 consumes, min() returns the smallest of the last
\* min(i, W) consumed values, also right after the previous minimum was the
\* sample evicted.
C2_MinIsSmallest ==
    Consumed =>
        /\ min(filter) = Returned(Smallest(Win))
        /\ filter.buffer[filter.head].value = Smallest(Win)
        /\ ret.op = "min" => (ret.status = NoPanic /\ ret.value = Smallest(Win))

\* C2 witness: the last consume evicted a sample smaller than every sample
\* now in the window, and min() was then called.
C2_Witness ==
    /\ len(filter) >= 2
    /\ Len(inputs) > len(filter)
    /\ inputs[Len(inputs) - len(filter)] < Smallest(Win)
    /\ ret.op = "min"
    /\ ret.value = Smallest(Win)

\* C3: after i >= 1 consumes, max() returns the largest of the last
\* min(i, W) consumed values.
C3_MaxIsLargest ==
    Consumed =>
        /\ max(filter) = Returned(Largest(Win))
        /\ ret.op = "max" => (ret.status = NoPanic /\ ret.value = Largest(Win))

\* C4: in every state reached by at least one consume,
\* min() <= median() <= max().
C4_MinMedianMax ==
    Consumed =>
        /\ min(filter).status = NoPanic
        /\ median(filter).status = NoPanic
        /\ max(filter).status = NoPanic
        /\ min(filter).value <= median(filter).value
        /\ median(filter).value <= max(filter).value

\* C6: consume is total for W >= 1: from every reachable state and for every
\* value it completes and returns a value; no slot index it uses is out of
\* range (no usize::MAX link is followed) and the slot read through the median
\* cursor is not empty.
C6_ConsumeTotal ==
    len(filter) >= 1 =>
        /\ \A value \in Values :
               LET c == consume(filter, value)
               IN /\ c.run.panic = NoPanic
                  /\ c.result.status = NoPanic
                  /\ is_some(c.result.value)
        /\ ret.op = "consume" => (ret.status = NoPanic /\ is_some(ret.value))

\* C6 witness: a window of size 1 after its single slot was evicted and
\* refilled by a second consume.
C6_Witness ==
    /\ len(filter) = 1
    /\ Len(inputs) >= 2
    /\ ret.op = "consume"
    /\ ret.status = NoPanic
    /\ ret.value = inputs[Len(inputs)]

C8_Duplicates ==
    (Consumed /\ Len(inputs) >= len(filter)
     /\ \A i \in DOMAIN Win : Win[i] = inputs[Len(inputs)]) =>
        /\ median(filter) = Returned(inputs[Len(inputs)])
        /\ min(filter) = Returned(inputs[Len(inputs)])
        /\ max(filter) = Returned(inputs[Len(inputs)])

\* C8 witness: a window of size >= 3 that held other values, larger and
\* smaller, before the W equal ones.
C8_Witness ==
    /\ len(filter) >= 3
    /\ Len(inputs) >= len(filter) + 2
    /\ \A i \in DOMAIN Win : Win[i] = inputs[Len(inputs)]
    /\ inputs[Len(inputs) - len(filter)] > inputs[Len(inputs)]
    /\ inputs[Len(inputs) - len(filter) - 1] < inputs[Len(inputs)]
    /\ median(filter) = Returned(inputs[Len(inputs)])

C10_ZeroCapacityAssert ==
    len(filter) = 0 =>
        /\ median(filter) = Panicked(AssertFailed)
        /\ min(filter) = Panicked(AssertFailed)
        /\ max(filter) = Panicked(AssertFailed)
        /\ ret.op \in Accessors => (ret.status = AssertFailed /\ ret.value = None)
        /\ filter = new(0)

\* C10 witness: max() was called on a zero-capacity window and failed.
C10_Witness ==
    /\ len(filter) = 0
    /\ ret.op = "max"
    /\ ret.status = AssertFailed

\* C5 (under SpecTwin): if two input sequences, each at least W long, end in
\* the same W values, the two windows return equal results from median(),
\* min() and max(), and from consume for every common continuation.
SameLastW ==
    /\ len(filter) >= 1
    /\ Len(inputs) >= len(filter)
    /\ Len(twinInputs) >= len(twin)
    /\ Window(inputs, filter) = Window(twinInputs, twin)

C5_WindowBoundary ==
    SameLastW =>
        /\ median(filter) = median(twin)
        /\ min(filter) = min(twin)
        /\ max(filter) = max(twin)
        /\ \A value \in TwinValues :
               consume(filter, value).result = consume(twin, value).result

\* C5 witness: two windows of size 3 with equal last 3 values whose older
\* inputs differed, so that their slots are laid out differently.
C5_Witness ==
    /\ SameLastW
    /\ len(filter) = 3
    /\ inputs # twinInputs
    /\ filter # twin
    /\ median(filter).status = NoPanic

\* C11: is_empty() returns true exactly when the filter has a length of 0,
\* and false for every window with W >= 1.
C11_IsEmptyBoolean ==
    ret.op = "is_empty" =>
        LET r == is_empty(filter)
        IN /\ r.type = "bool"
           /\ r.value = (len(filter) = 0)

\* ------------------------------------------------ the embedded linked list
\* Reference notions for the claims about the list.
LinksInBounds(f) ==
    \A x \in DOMAIN f.buffer :
        InBounds(f, f.buffer[x].next) /\ InBounds(f, f.buffer[x].previous)

\* The slot reached from slot x by following next n times.
RECURSIVE NthNext(_, _, _)
NthNext(f, x, n) == IF n = 0 THEN x ELSE NthNext(f, f.buffer[x].next, n - 1)

\* The slots in walk order: W hops along next, starting at head.
Walk(f) == [p \in 1..len(f) |-> NthNext(f, f.head, p - 1)]

\* The values met on the walk, the empty slots left out.
WalkValues(f) ==
    LET held(x) == is_some(f.buffer[x].value)
        slots == SelectSeq(Walk(f), held)
    IN [p \in 1..Len(slots) |-> f.buffer[slots[p]].value]

NonDecreasing(vs) == \A p \in 1..(Len(vs) - 1) : vs[p] <= vs[p + 1]

\* C12: after construction and after every consume (W >= 1), walking next
\* from head over the slots that hold a value visits the values in
\* non-decreasing order, and previous is the exact inverse of next on every
\* slot.
C12_SortOrder ==
    len(filter) >= 1 =>
        /\ LinksInBounds(filter)
        /\ \A x \in DOMAIN filter.buffer :
               /\ filter.buffer[filter.buffer[x].next].previous = x
               /\ filter.buffer[filter.buffer[x].previous].next = x
        /\ LET vs == WalkValues(filter)
           IN NonDecreasing(vs) /\ Len(vs) = ValidCount(inputs, filter)

\* C12 witness: a full window of three distinct values that arrived in an
\* order other than the sorted one, after the window has slid.
C12_Witness ==
    /\ len(filter) >= 3
    /\ Len(inputs) > len(filter)
    /\ ret.op = "consume"
    /\ WalkValues(filter)[1] < WalkValues(filter)[2]
    /\ WalkValues(filter)[2] < WalkValues(filter)[3]
    /\ inputs[Len(inputs)] = WalkValues(filter)[2]
    /\ inputs[Len(inputs) - 1] = WalkValues(filter)[3]

\* C13: after i consume calls on a window of size W >= 1 the write cursor is
\* i mod W, exactly min(i, W) slots hold a value, and slot j holds the most
\* recent input written at a position congruent to j mod W: the window holds
\* exactly the last min(i, W) inputs, the oldest being evicted by every
\* consume with i > W.
C13_RingFifo ==
    len(filter) >= 1 =>
        LET W == len(filter)
            i == Len(inputs)
        IN /\ filter.cursor = i % W
           /\ Cardinality({j \in DOMAIN filter.buffer :
                              is_some(filter.buffer[j].value)})
                  = ValidCount(inputs, filter)
           /\ \A n \in 1..i :
                  n > i - W => filter.buffer[(n - 1) % W].value = inputs[n]
           /\ \A j \in DOMAIN filter.buffer :
                  j >= i => filter.buffer[j].value = None

\* C13 witness: the cursor has wrapped and stands in mid-ring, and the slot
\* behind it no longer holds the value first written there.
C13_Witness ==
    /\ len(filter) >= 2
    /\ Len(inputs) > len(filter)
    /\ filter.cursor = 1
    /\ ret.op = "consume"
    /\ filter.buffer[0].value = inputs[Len(inputs)]
    /\ filter.buffer[0].value # inputs[1]

\* C14: after the i-th consume (W >= 1, even or odd, k = min(i, W)) the
\* median cursor is exactly the slot reached from head by following next
\* ceil(k/2) - 1 times, also during warm-up and with equal values present.
C14_MedianPosition ==
    Consumed =>
        /\ LinksInBounds(filter)
        /\ filter.median =
               NthNext(filter, filter.head, HalfUp(ValidCount(inputs, filter)) - 1)

\* C14 witness: an even window during warm-up whose samples include equal
\* values, the last consume having brought a new minimum.
C14_Witness ==
    /\ len(filter) = 4
    /\ Len(inputs) = 3
    /\ ret.op = "consume"
    /\ inputs[1] = inputs[2]
    /\ inputs[3] < inputs[1]
    /\ filter.head = 2
    /\ filter.median = NthNext(filter, filter.head, 1)

\* C15: in every state reached after i < W consume calls, walking next from
\* head visits every value-holding slot before any empty slot: the real
\* values are contiguous from head and the empty slots sort after them.
C15_WarmUpOrder ==
    (len(filter) >= 1 /\ Len(inputs) < len(filter)) =>
        /\ LinksInBounds(filter)
        /\ LET w == Walk(filter)
           IN \A p \in 1..len(filter) :
                  is_some(filter.buffer[w[p]].value) <=> p <= Len(inputs)

\* C15 witness: a window in warm-up with two values that arrived in
\* descending order and two empty slots left.
C15_Witness ==
    /\ len(filter) = 4
    /\ Len(inputs) = 2
    /\ ret.op = "consume"
    /\ inputs[2] < inputs[1]
    /\ Walk(filter) = <<1, 0, 2, 3>>

\* The list as consume's insertion walk finds it: head moved off the cursor
\* slot, the cursor slot unlinked.
Evicted(f) == remove_node(move_head_forward(Enter(f)))

\* The slot before which the claim says the new value is linked: the first
\* of the remaining W - 1 slots, in walk order from head, that is empty or
\* holds a value >= the new one; the head (the end of the circular list)
\* if there is none.
Qualifying(e, value) ==
    {q \in 0..(len(e) - 2) :
        LET x == NthNext(e, e.head, q)
        IN ~is_some(e.buffer[x].value) \/ e.buffer[x].value >= value}
Least(S) == CHOOSE q \in S : \A r \in S : q <= r
InsertionPoint(e, value) ==
    IF Qualifying(e, value) # {}
    THEN NthNext(e, e.head, Least(Qualifying(e, value)))
    ELSE e.head

\* How many consumes ago slot j was written (0: by the most recent one).
Age(f, j) == (f.cursor + len(f) - 1 - j) % len(f)

\* C16: in each consume the write-cursor slot is linked into the list exactly
\* once, immediately before the first slot, in walk order from head over the
\* list after eviction, that is empty or holds a value >= the new value; if
\* none of the remaining W - 1 slots qualifies it is linked at the end of the
\* list, after the largest value.  Hence equal values are ordered by arrival,
\* the most recently consumed one first.
C16_InsertionPoint ==
    len(filter) >= 1 =>
        /\ \A value \in Values :
               LET e == Evicted(filter)
                   c == consume_run(filter, value)
                   target == InsertionPoint(e, value)
                   slot == filter.cursor
               IN /\ c.inserts = 1
                  /\ c.insert_at = target
                  /\ c.buffer[slot].value = value
                  /\ c.buffer[slot].next = target
                  /\ c.buffer[slot].previous = e.buffer[target].previous
                  /\ c.buffer[e.buffer[target].previous].next = slot
                  /\ (Qualifying(e, value) = {} /\ len(filter) >= 2) =>
                         /\ c.head = e.head
                         /\ c.buffer[slot].previous =
                                NthNext(e, e.head, len(filter) - 2)
                         /\ c.buffer[c.buffer[slot].previous].value < value
        /\ LinksInBounds(filter)
        /\ LET w == Walk(filter)
           IN \A p, q \in 1..len(filter) :
                  (p < q /\ is_some(filter.buffer[w[p]].value)
                   /\ filter.buffer[w[p]].value = filter.buffer[w[q]].value)
                      => Age(filter, w[p]) < Age(filter, w[q])

\* C16 witness: the last consume brought a value equal to one already in a
\* full window and larger than another, and it stands right before its
\* older equal in the list.
C16_Witness ==
    /\ len(filter) >= 3
    /\ Len(inputs) > len(filter)
    /\ ret.op = "consume"
    /\ LET newest == (filter.cursor + len(filter) - 1) % len(filter)
           succ == filter.buffer[newest].next
       IN /\ filter.buffer[succ].value = filter.buffer[newest].value
          /\ succ # newest
          /\ filter.buffer[filter.head].value < filter.buffer[newest].value

\* C17: the debug assertion of insert never fails: in every reachable call of
\* insert on a window with W >= 2 the insertion point current differs from
\* the write-cursor slot, head having been moved off the cursor slot before
\* the eviction.
C17_InsertAssertion ==
    len(filter) >= 2 =>
        /\ Evicted(filter).head # filter.cursor
        /\ \A value \in Values :
               LET c == consume_run(filter, value)
               IN /\ c.panic # DebugAssertFailed
                  /\ c.inserts >= 1 => insert_debug_assert(filter, c.insert_at)
        /\ ret.op = "consume" => ret.status # DebugAssertFailed

\* C17 witness: a full window whose head is the slot under the write cursor,
\* so that the next consume evicts the minimum.
C17_Witness ==
    /\ len(filter) >= 2
    /\ Len(inputs) >= len(filter)
    /\ filter.head = filter.cursor
    /\ ret.op = "consume"
    /\ ret.status = NoPanic

\* C18: for every W >= 1, every reachable state and every value, the
\* insertion walk of one consume performs exactly W hops (it goes on after
\* the insertion and never beyond W), after which consume terminates.
C18_BoundedWalk ==
    len(filter) >= 1 =>
        /\ \A value \in Values :
               LET c == consume_run(filter, value)
               IN c.hops = len(filter) /\ c.panic = NoPanic
        /\ ret.op = "consume" => (ret.hops = len(filter) /\ ret.status = NoPanic)

\* C18 witness: a consume on a full window of size >= 3 whose value was
\* inserted on the first hop, as the new minimum, and whose walk still made
\* W hops.
C18_Witness ==
    /\ len(filter) >= 3
    /\ Len(inputs) > len(filter)
    /\ ret.op = "consume"
    /\ ret.hops = len(filter)
    /\ filter.head = (filter.cursor + len(filter) - 1) % len(filter)

\* C19: after construction and after every completed consume (W >= 1), the
\* next links form a single cycle that passes through each of the W slots
\* exactly once, and no previous or next link still holds the usize::MAX
\* placeholder written during eviction.
C19_ListTopology ==
    len(filter) >= 1 =>
        /\ \A x \in DOMAIN filter.buffer :
               /\ filter.buffer[x].next # UsizeMax
               /\ filter.buffer[x].previous # UsizeMax
        /\ LinksInBounds(filter)
        /\ LET w == Walk(filter)
           IN {w[p] : p \in 1..len(filter)} = DOMAIN filter.buffer
        /\ NthNext(filter, filter.head, len(filter)) = filter.head

\* C19 witness: a window of size >= 3 after it has slid, its list running
\* through the slots in another order than the ring.
C19_Witness ==
    /\ len(filter) >= 3
    /\ Len(inputs) > len(filter)
    /\ ret.op = "consume"
    /\ filter.buffer[filter.head].next # (filter.head + 1) % len(filter)
    /\ filter.buffer[filter.head].previous # (filter.head + len(filter) - 1) % len(filter)

\* C20 as claimed: new(0) constructs a window without failing, and a consume
\* call on it fails without returning a median, at the cursor advance
\* (remainder by zero).
C20_ZeroCapacityRemainder ==
    (len(filter) = 0 /\ ret.op = "consume") =>
        /\ ret.value = None
        /\ ret.status = RemByZero
        /\ ret.at = "increment_cursor"

\* C20 amended: new(0) constructs a window without failing, and a consume
\* call on it fails without returning a median; it fails in its first step,
\* move_head_forward, whose read of buffer[head] is out of bounds; the
\* cursor advance is not reached and the filter is left as constructed.
C20_ZeroCapacityConsume ==
    len(filter) = 0 =>
        /\ filter = new(0)
        /\ \A value \in Values :
               LET c == consume(filter, value)
               IN /\ c.result = Panicked(IndexOutOfBounds)
                  /\ c.run.at = "move_head_forward"
                  /\ Leave(c.run) = new(0)
        /\ ret.op = "consume" =>
               /\ ret.value = None
               /\ ret.status = IndexOutOfBounds
               /\ ret.at = "move_head_forward"

\* C20 witness: consume was called on a zero-capacity window and panicked.
C20_Witness ==
    /\ len(filter) = 0
    /\ Len(inputs) >= 1
    /\ ret.op = "consume"
    /\ ret.status # NoPanic

====
